---- MODULE Spec2Model ----
(***************************************************************************)
(* Acquisition-render-sleep cycle of the ESP32 e-ink prayer-times display  *)
(* (esp32-firmware/src/main.cpp).  One cycle is one run of setup():        *)
(* connectWiFi, fetchPrayerTimes, displayPrayerTimes or displayError,      *)
(* goToSleep.  Deep sleep ends the run; the wake timer restarts it with    *)
(* freshly initialised globals.                                            *)
(***************************************************************************)
EXTENDS Integers, Sequences, FiniteSets, TLC

VARIABLES pc, stages, attempts, linkUp, wifiMode, httpCode, payload, errorMsg,
          prayerTimes, weatherData, forecast, result, frames, timeSynced,
          timeinfo, sleepSeconds, timerUs, displayState

(* The host program read_data (esp32-firmware/read_data.cpp): its command  *)
(* line, the files it can be given, and the state of one run of main()     *)
VARIABLES argv, disk, hostPc, filePath, fileData, cout, cerr, exitStatus

vars == <<pc, stages, attempts, linkUp, wifiMode, httpCode, payload, errorMsg,
          prayerTimes, weatherData, forecast, result, frames, timeSynced,
          timeinfo, sleepSeconds, timerUs, displayState,
          argv, disk, hostPc, filePath, fileData, cout, cerr, exitStatus>>

(* The state of the firmware, and the state of the host program *)
device == <<pc, stages, attempts, linkUp, wifiMode, httpCode, payload,
            errorMsg, prayerTimes, weatherData, forecast, result, frames,
            timeSynced, timeinfo, sleepSeconds, timerUs, displayState>>
host == <<argv, disk, hostPc, filePath, fileData, cout, cerr, exitStatus>>

---------------------------------------------------------------------------
(* Program constants *)

WAKE_HOUR == 0
WAKE_MINUTE == 10
HTTP_CODE_OK == 200
WIFI_MAX_ATTEMPTS == 40
SYNC_MAX_ATTEMPTS == 20
FORECAST_CAPACITY == 3
DAY_SECONDS == 86400

(* Bound of the model: the longest forecast list a payload carries. *)
MaxForecastLen == 5

(* Bound of the model: how often a render routine is called on the same    *)
(* globals.                                                                *)
MaxRenders == 2

(* Widths in bytes of the ESP32's unsigned long and unsigned long long *)
ULONG_BYTES == 4
ULLONG_BYTES == 8

---------------------------------------------------------------------------
(* Machine words: an unsigned integer of k bytes is the sequence of its    *)
(* bytes, least significant first.                                         *)

(* The k-byte two's-complement word of an int x (k <= 4) *)
ToWord(x, k) == [i \in 1..k |-> (x \div (256 ^ (i - 1))) % 256]

(* Zero-extension of an unsigned word to k bytes *)
Extend(w, k) == [i \in 1..k |-> IF i <= Len(w) THEN w[i] ELSE 0]

(* Whether a word's value fits a non-negative int, and that value *)
FitsInt(w) == \A i \in 1..Len(w) : (i > 4 => w[i] = 0) /\ (i = 4 => w[i] < 128)

RECURSIVE WordValueFrom(_, _)
WordValueFrom(w, i) ==
  IF i > Len(w) \/ i > 4 THEN 0 ELSE w[i] + 256 * WordValueFrom(w, i + 1)

WordValue(w) == WordValueFrom(w, 1)

(* Column i of the schoolbook product of two words *)
RECURSIVE ColumnSum(_, _, _, _)
ColumnSum(a, b, i, j) ==
  IF j > i THEN 0 ELSE a[j] * b[i + 1 - j] + ColumnSum(a, b, i, j + 1)

RECURSIVE ColumnTotal(_, _, _)
ColumnTotal(a, b, i) ==
  IF i = 0 THEN 0
  ELSE ColumnSum(a, b, i, 1) + (ColumnTotal(a, b, i - 1) \div 256)

(* The product of two k-byte words, truncated to k bytes *)
MulWord(a, b, k) == [i \in 1..k |-> ColumnTotal(a, b, i) % 256]

---------------------------------------------------------------------------
(* Arduino String(int): decimal formatting *)

Digit(d) ==
  CASE d = 0 -> "0" [] d = 1 -> "1" [] d = 2 -> "2" [] d = 3 -> "3"
    [] d = 4 -> "4" [] d = 5 -> "5" [] d = 6 -> "6" [] d = 7 -> "7"
    [] d = 8 -> "8" [] d = 9 -> "9"

RECURSIVE NatToString(_)
NatToString(n) ==
  IF n < 10 THEN Digit(n) ELSE NatToString(n \div 10) \o Digit(n % 10)

(* String(int) that prints the magnitude only *)
IntToStringUnsigned(n) == IF n < 0 THEN NatToString(-n) ELSE NatToString(n)

IntToString(n) == IF n < 0 THEN "-" \o NatToString(-n) ELSE NatToString(n)

---------------------------------------------------------------------------
(* JSON values as ArduinoJson sees them.  A scalar is a record             *)
(* [type, s, n]: s is the text of a string, n the value of an integer, or  *)
(* the value of a float in tenths.                                         *)

JAbsent == [type |-> "absent", s |-> "", n |-> 0]
JNull == [type |-> "null", s |-> "", n |-> 0]
JStr(str) == [type |-> "string", s |-> str, n |-> 0]
JInt(i) == [type |-> "int", s |-> "", n |-> i]
(* An integer too large for an int, in millions *)
JBigInt(millions) == [type |-> "bigint", s |-> "", n |-> millions]
JFloat(tenths) == [type |-> "float", s |-> "", n |-> tenths]
JBool == [type |-> "bool", s |-> "", n |-> 1]
JArr == [type |-> "array", s |-> "", n |-> 0]
JObj == [type |-> "object", s |-> "", n |-> 0]

(* variant | "default" that falls back to the empty string *)
OrStrEmpty(v, def) == IF v.type = "string" THEN v.s ELSE ""

(* variant | "default": the string when the variant holds one *)
OrStr(v, def) == IF v.type = "string" THEN v.s ELSE def

(* variant | 0: the integer when the variant holds one that fits an int *)
OrInt(v, def) == IF v.type = "int" THEN v.n ELSE def

(* variant | 0.0f: the number (integer or float) as a float, in tenths *)
OrFloat(v, def) ==
  IF v.type = "float" THEN v.n
  ELSE IF v.type = "int" THEN v.n * 10
  ELSE IF v.type = "bigint" THEN v.n * 10000000
  ELSE def

---------------------------------------------------------------------------
(* The payload: the response body as a parsed document.  valid is whether  *)
(* deserializeJson accepts the text, root the type of the top-level value, *)
(* errorAt the offset of the byte at which a text stops being JSON (0 in a *)
(* valid text).                                                            *)

PrayerNames == <<"fajr", "shuruq", "dhuhr", "asr", "maghrib", "isha">>

NoTimes(t) ==
  [type |-> t, fajr |-> JAbsent, shuruq |-> JAbsent, dhuhr |-> JAbsent,
   asr |-> JAbsent, maghrib |-> JAbsent, isha |-> JAbsent]

GoodTimes ==
  [type |-> "object", fajr |-> JStr("05:12"), shuruq |-> JStr("06:48"),
   dhuhr |-> JStr("12:30"), asr |-> JStr("15:17"), maghrib |-> JStr("18:05"),
   isha |-> JStr("19:41")]

NoCurrent(t) ==
  [type |-> t, temperature |-> JAbsent, condition |-> JAbsent,
   wind_speed |-> JAbsent, icon |-> JAbsent]

GoodCurrent ==
  [type |-> "object", temperature |-> JInt(21), condition |-> JStr("Clouds"),
   wind_speed |-> JFloat(34), icon |-> JStr("04d")]

NoDay(t) ==
  [type |-> t, date |-> JAbsent, high |-> JAbsent, low |-> JAbsent,
   condition |-> JAbsent]

DayConditions == <<"Clear", "Clouds", "Rain", "Snow", "Thunderstorm", "Mist">>

GoodDay(i) ==
  [type |-> "object", date |-> JStr("2025-03-1" \o Digit(i)),
   high |-> JInt(10 + i), low |-> JInt(i - 3),
   condition |-> JStr(DayConditions[((i - 1) % 6) + 1])]

(* An entry with an absent date, a string where high is read, a float     *)
(* where low is read, and a well-typed condition                          *)
PartialDay(i) ==
  [type |-> "object", date |-> JAbsent, high |-> JStr("12"),
   low |-> JFloat(15 + i), condition |-> JStr("Rain")]

DayOfKind(i, k) ==
  CASE k = "good" -> GoodDay(i)
    [] k = "partial" -> PartialDay(i)
    [] OTHER -> NoDay("int")

DayKinds == {"good", "partial"}

NoForecast(t) == [type |-> t, items |-> <<>>]

ForecastOf(kinds) ==
  [type |-> "array", items |-> [i \in 1..Len(kinds) |-> DayOfKind(i, kinds[i])]]

GoodForecast == ForecastOf(<<"good", "good", "good">>)

NoWeather(t) ==
  [type |-> t, current |-> NoCurrent("absent"), forecast |-> NoForecast("absent")]

WeatherOf(c, f) == [type |-> "object", current |-> c, forecast |-> f]

GoodWeather == WeatherOf(GoodCurrent, GoodForecast)

Doc(times, loc, weather) ==
  [valid |-> TRUE, root |-> "object", errorAt |-> 0, prayer_times |-> times,
   location |-> loc, weather |-> weather]

NoPayload ==
  [valid |-> FALSE, root |-> "none", errorAt |-> 0,
   prayer_times |-> NoTimes("absent"), location |-> JAbsent,
   weather |-> NoWeather("absent")]

(* Text that is not JSON, and a JSON text whose top-level value is an array *)
BadSyntax == [NoPayload EXCEPT !.root = "text"]
RootArray == [NoPayload EXCEPT !.valid = TRUE, !.root = "array"]

(* Text that stops being JSON at a later byte: after the opening brace, in *)
(* the prayer_times section, in the forecast list                          *)
BadSyntaxAt(offset) == [BadSyntax EXCEPT !.errorAt = offset]
BadSyntaxOffsets == {1, 17, 250}

StrChoices(good) == {JAbsent, JInt(7), good}

(* Payloads around the mandatory section *)
PayloadsTop ==
  {BadSyntax, RootArray}
  \cup {BadSyntaxAt(k) : k \in BadSyntaxOffsets}
  \cup {Doc(NoTimes(t), l, w) :
          t \in {"absent", "null", "string", "int", "bool", "array"},
          l \in {JAbsent, JStr("Berlin")},
          w \in {NoWeather("absent"), GoodWeather}}

(* Payloads whose prayer_times object has each field absent, ill-typed or  *)
(* well-typed                                                              *)
PayloadsTimes ==
  {Doc([type |-> "object", fajr |-> a, shuruq |-> b, dhuhr |-> c, asr |-> d,
        maghrib |-> e, isha |-> f], JStr("Berlin"), NoWeather("absent")) :
     a \in StrChoices(GoodTimes.fajr), b \in StrChoices(GoodTimes.shuruq),
     c \in StrChoices(GoodTimes.dhuhr), d \in StrChoices(GoodTimes.asr),
     e \in StrChoices(GoodTimes.maghrib), f \in StrChoices(GoodTimes.isha)}

PayloadsLocation ==
  {Doc(GoodTimes, l, GoodWeather) : l \in {JAbsent, JNull, JInt(7), JObj}}

(* Payloads whose weather.current object varies field by field *)
PayloadsCurrent ==
  {Doc(GoodTimes, JStr("Berlin"),
       WeatherOf([type |-> "object", temperature |-> t, condition |-> c,
                  wind_speed |-> w, icon |-> i], GoodForecast)) :
     t \in {JAbsent, JStr("21"), JFloat(215), JBigInt(3000), JInt(21), JInt(-4)},
     c \in StrChoices(JStr("Clouds")),
     w \in {JAbsent, JStr("3.4"), JInt(5), JFloat(34)},
     i \in StrChoices(JStr("04d"))}

(* Forecast lists of every length up to MaxForecastLen: every mix of      *)
(* complete and partial entries, and every list of complete entries with   *)
(* one entry that is not an object                                         *)
ForecastKinds ==
  UNION {[1..n -> DayKinds] : n \in 0..MaxForecastLen}
  \cup {[i \in 1..n |-> IF i = k THEN "scalar" ELSE "good"] :
          n \in 1..MaxForecastLen, k \in 1..MaxForecastLen}

(* Payloads whose weather section, current sub-section and forecast list   *)
(* are each absent, ill-typed or present, with lists of every length up to *)
(* MaxForecastLen                                                          *)
PayloadsWeather ==
  {Doc(GoodTimes, JStr("Berlin"), NoWeather(t)) : t \in {"absent", "string", "array"}}
  \cup {Doc(GoodTimes, JStr("Berlin"), WeatherOf(c, f)) :
          c \in {NoCurrent("absent"), NoCurrent("string"), GoodCurrent},
          f \in {NoForecast("absent"), NoForecast("object")}
                  \cup {ForecastOf(k) : k \in ForecastKinds}}

Payloads ==
  PayloadsTop \cup PayloadsTimes \cup PayloadsLocation \cup PayloadsCurrent
    \cup PayloadsWeather

(* Status codes HTTPClient::GET can return: HTTP statuses, and negative    *)
(* codes for connection and timeout errors                                 *)
HttpCodes == {200, 204, 404, 500, -1, -11}

(* Local-time readings getLocalTime can deliver in the cycle model: the    *)
(* wake target itself, its neighbours, and the ends of the day             *)
Reading(h, m, s) == [ok |-> TRUE, hour |-> h, min |-> m, sec |-> s]
NoReading == [ok |-> FALSE, hour |-> 0, min |-> 0, sec |-> 0]

ClockSamples ==
  {NoReading, Reading(0, 0, 0), Reading(0, 9, 59), Reading(0, 10, 0),
   Reading(0, 10, 1), Reading(12, 0, 0), Reading(23, 59, 59)}

AllReadings ==
  {NoReading} \cup {Reading(h, m, s) : h \in 0..23, m \in 0..59, s \in 0..59}

---------------------------------------------------------------------------
(* read_data: the files it can be given.  A file is there or not; its text *)
(* is JSON or not (valid); root is the type of the top-level value,        *)
(* prayer_times the member of that name, fajr the member of that.          *)

DefaultPath == "data-collection/output/display_data.json"

Paths == {DefaultPath, "a.json"}

(* The command lines: without an argument, and with a path *)
Commands == {<<"read_data">>, <<"read_data", "a.json">>}

HostNoTimes(t) == [type |-> t, fajr |-> JAbsent]

HostTimes(f) == [type |-> "object", fajr |-> f]

FajrValues ==
  {JAbsent, JNull, JStr("05:12"), JStr("04:58"), JStr(""), JStr("N/A"),
   JInt(512), JFloat(51), JBool, JArr, JObj}

HostFile(ok, root, times) ==
  [exists |-> TRUE, valid |-> ok, root |-> root, prayer_times |-> times]

NoFile ==
  [exists |-> FALSE, valid |-> FALSE, root |-> "none",
   prayer_times |-> HostNoTimes("absent")]

Files ==
  {NoFile, HostFile(FALSE, "text", HostNoTimes("absent"))}
  \cup {HostFile(TRUE, r, HostNoTimes("absent")) :
          r \in {"null", "bool", "int", "string", "array"}}
  \cup {HostFile(TRUE, "object", HostNoTimes(ty)) :
          ty \in {"absent", "null", "int", "string", "array"}}
  \cup {HostFile(TRUE, "object", HostTimes(f)) : f \in FajrValues}

(* json data; a default-constructed value is null *)
NullJson == [root |-> "null", prayer_times |-> HostNoTimes("absent")]

(* The host program is not running *)
HostIdle ==
  /\ argv = <<"read_data">>
  /\ disk = [p \in Paths |-> NoFile]
  /\ hostPc = "off"
  /\ filePath = ""
  /\ fileData = NullJson
  /\ cout = <<>>
  /\ cerr = <<>>
  /\ exitStatus = "none"

---------------------------------------------------------------------------
(* Globals as constructed *)

InitPrayerTimes ==
  [fajr |-> "N/A", shuruq |-> "N/A", dhuhr |-> "N/A", asr |-> "N/A",
   maghrib |-> "N/A", isha |-> "N/A", location |-> ""]

InitWeatherData ==
  [temperature |-> 0, condition |-> "N/A", windSpeed |-> 0, icon |-> ""]

InitForecastDay == [date |-> "", high |-> 0, low |-> 0, condition |-> ""]

InitForecast == [i \in 0..(FORECAST_CAPACITY - 1) |-> InitForecastDay]

Init ==
  /\ pc = "boot"
  /\ stages = <<>>
  /\ attempts = 0
  /\ linkUp = FALSE
  /\ wifiMode = "NULL"
  /\ httpCode = 0
  /\ payload = NoPayload
  /\ errorMsg = ""
  /\ prayerTimes = InitPrayerTimes
  /\ weatherData = InitWeatherData
  /\ forecast = InitForecast
  /\ result = "none"
  /\ frames = <<>>
  /\ timeSynced = FALSE
  /\ timeinfo = NoReading
  /\ sleepSeconds = ToWord(0, ULONG_BYTES)
  /\ timerUs = Extend(<<>>, ULLONG_BYTES)
  /\ displayState = "off"
  /\ HostIdle

---------------------------------------------------------------------------
(* fetchPrayerTimes: the decoding of a parsed document *)

(* object[key]; a null JsonObject (the section is not an object) yields a  *)
(* null variant for every key                                              *)
Member(obj, key) == IF obj.type = "object" THEN obj[key] ELSE JAbsent

(* doc["prayer_times"], doc["location"], doc["weather"] *)
DocMember(p, key) == IF p.root = "object" THEN p[key] ELSE JAbsent

(* A check that only notices a missing prayer_times key *)
TimesIsAbsent(p) ==
  \/ p.root # "object"
  \/ p.prayer_times.type = "absent"

(* JsonObject times = doc["prayer_times"]; times.isNull() *)
TimesIsNull(p) ==
  \/ p.root # "object"
  \/ p.prayer_times.type # "object"

DecodePrayerTimes(p) ==
  [fajr |-> OrStr(Member(p.prayer_times, "fajr"), "N/A"),
   shuruq |-> OrStr(Member(p.prayer_times, "shuruq"), "N/A"),
   dhuhr |-> OrStr(Member(p.prayer_times, "dhuhr"), "N/A"),
   asr |-> OrStr(Member(p.prayer_times, "asr"), "N/A"),
   maghrib |-> OrStr(Member(p.prayer_times, "maghrib"), "N/A"),
   isha |-> OrStr(Member(p.prayer_times, "isha"), "N/A"),
   location |-> OrStr(DocMember(p, "location"), "")]

(* JsonObject weather = doc["weather"]; !weather.isNull() *)
HasWeather(p) == p.root = "object" /\ p.weather.type = "object"

DecodeWeather(p, old) ==
  IF HasWeather(p) /\ p.weather.current.type = "object"
  THEN [temperature |-> OrInt(Member(p.weather.current, "temperature"), 0),
        condition |-> OrStr(Member(p.weather.current, "condition"), "N/A"),
        windSpeed |-> OrFloat(Member(p.weather.current, "wind_speed"), 0),
        icon |-> OrStr(Member(p.weather.current, "icon"), "")]
  ELSE old

(* The indices the forecast loop writes: i < 3 && i < forecastArray.size() *)
ForecastSlots(size) == {i \in 0..(FORECAST_CAPACITY - 1) : i < size}

(* The forecast loop reading the list from its end *)
ForecastEntryFromEnd(items, i) == items[Len(items) - i]

(* JsonObject day = forecastArray[i] *)
ForecastEntry(items, i) == items[i + 1]

DecodeDay(day) ==
  [date |-> OrStr(Member(day, "date"), ""),
   high |-> OrInt(Member(day, "high"), 0),
   low |-> OrInt(Member(day, "low"), 0),
   condition |-> OrStr(Member(day, "condition"), "")]

(* The forecast loop placed inside the branch that reads "current" *)
DecodeForecastInsideCurrent(p, old) ==
  IF /\ HasWeather(p) /\ p.weather.current.type = "object"
     /\ p.weather.forecast.type = "array"
  THEN [i \in 0..(FORECAST_CAPACITY - 1) |->
          IF i \in ForecastSlots(Len(p.weather.forecast.items))
          THEN DecodeDay(ForecastEntry(p.weather.forecast.items, i))
          ELSE old[i]]
  ELSE old

DecodeForecast(p, old) ==
  IF HasWeather(p) /\ p.weather.forecast.type = "array"
  THEN [i \in 0..(FORECAST_CAPACITY - 1) |->
          IF i \in ForecastSlots(Len(p.weather.forecast.items))
          THEN DecodeDay(ForecastEntry(p.weather.forecast.items, i))
          ELSE old[i]]
  ELSE old

---------------------------------------------------------------------------
(* Arduino String operations the pictogram routines use *)

LowerChar(c) ==
  CASE c = "A" -> "a" [] c = "B" -> "b" [] c = "C" -> "c" [] c = "D" -> "d"
    [] c = "E" -> "e" [] c = "F" -> "f" [] c = "G" -> "g" [] c = "H" -> "h"
    [] c = "I" -> "i" [] c = "J" -> "j" [] c = "K" -> "k" [] c = "L" -> "l"
    [] c = "M" -> "m" [] c = "N" -> "n" [] c = "O" -> "o" [] c = "P" -> "p"
    [] c = "Q" -> "q" [] c = "R" -> "r" [] c = "S" -> "s" [] c = "T" -> "t"
    [] c = "U" -> "u" [] c = "V" -> "v" [] c = "W" -> "w" [] c = "X" -> "x"
    [] c = "Y" -> "y" [] c = "Z" -> "z"
    [] OTHER -> c

(* String::toLowerCase *)
RECURSIVE toLowerCase(_)
toLowerCase(s) ==
  IF Len(s) = 0 THEN ""
  ELSE LowerChar(SubSeq(s, 1, 1)) \o toLowerCase(SubSeq(s, 2, Len(s)))

(* String::indexOf(word): the first position (from 0) at which word occurs *)
(* in s, -1 when it occurs nowhere                                         *)
indexOf(s, word) ==
  LET hits == {i \in 1..(Len(s) - Len(word) + 1) :
                 SubSeq(s, i, i + Len(word) - 1) = word}
  IN IF hits = {} THEN -1
     ELSE (CHOOSE i \in hits : \A j \in hits : i <= j) - 1

(* String::startsWith(prefix) *)
startsWith(s, prefix) ==
  Len(s) >= Len(prefix) /\ SubSeq(s, 1, Len(prefix)) = prefix

---------------------------------------------------------------------------
(* The pictograms: which of its shapes each routine draws *)

(* drawSmallWeatherIcon with the thunderstorm check made before the rain   *)
(* check                                                                   *)
drawSmallWeatherIconThunderFirst(condition) ==
  LET c == toLowerCase(condition)
  IN IF indexOf(c, "clear") >= 0 \/ indexOf(c, "sun") >= 0 THEN "sun"
     ELSE IF indexOf(c, "cloud") >= 0 THEN "cloud"
     ELSE IF indexOf(c, "thunder") >= 0 \/ indexOf(c, "storm") >= 0
          THEN "thunder"
     ELSE IF indexOf(c, "rain") >= 0 \/ indexOf(c, "drizzle") >= 0 THEN "rain"
     ELSE IF indexOf(c, "snow") >= 0 THEN "snow"
     ELSE IF indexOf(c, "mist") >= 0 \/ indexOf(c, "fog") >= 0
               \/ indexOf(c, "haze") >= 0
          THEN "mist"
     ELSE "unknown"

(* drawSmallWeatherIcon: the forecast cards' pictogram, chosen by the      *)
(* lower-cased condition text                                              *)
drawSmallWeatherIcon(condition) ==
  LET c == toLowerCase(condition)
  IN IF indexOf(c, "clear") >= 0 \/ indexOf(c, "sun") >= 0 THEN "sun"
     ELSE IF indexOf(c, "cloud") >= 0 THEN "cloud"
     ELSE IF indexOf(c, "rain") >= 0 \/ indexOf(c, "drizzle") >= 0 THEN "rain"
     ELSE IF indexOf(c, "snow") >= 0 THEN "snow"
     ELSE IF indexOf(c, "thunder") >= 0 \/ indexOf(c, "storm") >= 0
          THEN "thunder"
     ELSE IF indexOf(c, "mist") >= 0 \/ indexOf(c, "fog") >= 0
               \/ indexOf(c, "haze") >= 0
          THEN "mist"
     ELSE "unknown"

(* drawWeatherIcon: the large pictogram, chosen by the icon code *)
drawWeatherIcon(iconCode) ==
  IF startsWith(iconCode, "01") THEN "sun"
  ELSE IF startsWith(iconCode, "02") THEN "few clouds"
  ELSE IF startsWith(iconCode, "03") \/ startsWith(iconCode, "04") THEN "cloud"
  ELSE IF startsWith(iconCode, "09") \/ startsWith(iconCode, "10") THEN "rain"
  ELSE IF startsWith(iconCode, "11") THEN "thunder"
  ELSE IF startsWith(iconCode, "13") THEN "snow"
  ELSE IF startsWith(iconCode, "50") THEN "mist"
  ELSE "unknown"

---------------------------------------------------------------------------
(* The frames the two layouts draw: the strings printed, in order, and the *)
(* pictograms drawn, in order                                              *)

DayLabel(date) ==
  IF Len(date) >= 10
  THEN SubSeq(date, 9, 10) \o "." \o SubSeq(date, 6, 7)
  ELSE ""

CardTexts(day) ==
  <<DayLabel(day.date),
    IntToString(day.high) \o " / " \o IntToString(day.low)>>

(* The success layout with a card only for the entries that carry a date *)
SuccessFrameDatedCards(pt, wd, fc) ==
  LET dated(i) == Len(fc[i].date) > 0
  IN [layout |-> "success",
      texts |->
        <<"Prayer Times">>
        \o (IF Len(pt.location) > 0 THEN <<pt.location>> ELSE <<>>)
        \o <<"Fajr", pt.fajr, "Sunrise", pt.shuruq, "Dhuhr", pt.dhuhr,
             "Asr", pt.asr, "Maghrib", pt.maghrib, "Isha", pt.isha>>
        \o (IF drawWeatherIcon(wd.icon) = "unknown" THEN <<"?">> ELSE <<>>)
        \o <<IntToString(wd.temperature) \o " C", wd.condition>>
        \o (IF dated(0) THEN CardTexts(fc[0]) ELSE <<>>)
        \o (IF dated(1) THEN CardTexts(fc[1]) ELSE <<>>)
        \o (IF dated(2) THEN CardTexts(fc[2]) ELSE <<>>),
      icons |->
        <<drawWeatherIcon(wd.icon)>>
        \o (IF dated(0) THEN <<drawSmallWeatherIcon(fc[0].condition)>>
            ELSE <<>>)
        \o (IF dated(1) THEN <<drawSmallWeatherIcon(fc[1].condition)>>
            ELSE <<>>)
        \o (IF dated(2) THEN <<drawSmallWeatherIcon(fc[2].condition)>>
            ELSE <<>>)]

SuccessFrame(pt, wd, fc) ==
  [layout |-> "success",
   texts |->
     <<"Prayer Times">>
     \o (IF Len(pt.location) > 0 THEN <<pt.location>> ELSE <<>>)
     \o <<"Fajr", pt.fajr, "Sunrise", pt.shuruq, "Dhuhr", pt.dhuhr,
          "Asr", pt.asr, "Maghrib", pt.maghrib, "Isha", pt.isha>>
     \o (IF drawWeatherIcon(wd.icon) = "unknown" THEN <<"?">> ELSE <<>>)
     \o <<IntToString(wd.temperature) \o " C", wd.condition>>
     \o CardTexts(fc[0]) \o CardTexts(fc[1]) \o CardTexts(fc[2]),
   icons |->
     <<drawWeatherIcon(wd.icon), drawSmallWeatherIcon(fc[0].condition),
       drawSmallWeatherIcon(fc[1].condition),
       drawSmallWeatherIcon(fc[2].condition)>>]

ErrorFrame(msg) ==
  [layout |-> "error", texts |-> <<"Error", msg>>, icons |-> <<>>]

---------------------------------------------------------------------------
(* Wake Scheduler *)

ToUnsignedLong(x) == ToWord(x, ULONG_BYTES)

(* calculateSleepSeconds with "< 0" where the code tests "<= 0" *)
calculateSleepSecondsStrict(r) ==
  IF ~r.ok THEN ToUnsignedLong(DAY_SECONDS)
  ELSE LET currentSeconds == r.hour * 3600 + r.min * 60 + r.sec
           targetSeconds == WAKE_HOUR * 3600 + WAKE_MINUTE * 60
           diff == targetSeconds - currentSeconds
       IN ToUnsignedLong(IF diff < 0 THEN diff + DAY_SECONDS ELSE diff)

(* calculateSleepSeconds without the day added once the target has passed *)
calculateSleepSecondsToday(r) ==
  IF ~r.ok THEN ToUnsignedLong(DAY_SECONDS)
  ELSE LET currentSeconds == r.hour * 3600 + r.min * 60 + r.sec
           targetSeconds == WAKE_HOUR * 3600 + WAKE_MINUTE * 60
           diff == targetSeconds - currentSeconds
       IN ToUnsignedLong(diff)

(* calculateSleepSeconds with the one-hour sleep of setup()'s comment as   *)
(* its fallback                                                            *)
calculateSleepSecondsHourFallback(r) ==
  IF ~r.ok THEN ToUnsignedLong(3600)
  ELSE LET currentSeconds == r.hour * 3600 + r.min * 60 + r.sec
           targetSeconds == WAKE_HOUR * 3600 + WAKE_MINUTE * 60
           diff == targetSeconds - currentSeconds
       IN ToUnsignedLong(IF diff <= 0 THEN diff + DAY_SECONDS ELSE diff)

calculateSleepSeconds(r) ==
  IF ~r.ok THEN ToUnsignedLong(DAY_SECONDS)
  ELSE LET currentSeconds == r.hour * 3600 + r.min * 60 + r.sec
           targetSeconds == WAKE_HOUR * 3600 + WAKE_MINUTE * 60
           diff == targetSeconds - currentSeconds
       IN ToUnsignedLong(IF diff <= 0 THEN diff + DAY_SECONDS ELSE diff)

---------------------------------------------------------------------------
(* setup() *)

data == <<prayerTimes, weatherData, forecast>>
sched == <<timeSynced, timeinfo, sleepSeconds, timerUs>>

(* Serial.begin, delay, display.init *)
Boot ==
  /\ pc = "boot"
  /\ pc' = "connectWiFi_begin"
  /\ displayState' = "ready"
  /\ UNCHANGED <<stages, attempts, linkUp, wifiMode, httpCode, payload,
                 errorMsg, data, result, frames, sched>>
  /\ UNCHANGED host

(* connectWiFi that stores its failure reason before it polls and leaves   *)
(* it there when the link comes up                                         *)
ConnectWiFiBeginPessimistic ==
  /\ pc = "connectWiFi_begin"
  /\ pc' = "connectWiFi"
  /\ stages' = Append(stages, "connect")
  /\ wifiMode' = "STA"
  /\ attempts' = 0
  /\ errorMsg' = "WiFi failed"
  /\ UNCHANGED <<linkUp, httpCode, payload, data, result, frames, sched,
                 displayState>>
  /\ UNCHANGED host

(* connectWiFi: WiFi.mode(WIFI_STA), WiFi.begin, attempts = 0 *)
ConnectWiFiBegin ==
  /\ pc = "connectWiFi_begin"
  /\ pc' = "connectWiFi"
  /\ stages' = Append(stages, "connect")
  /\ wifiMode' = "STA"
  /\ attempts' = 0
  /\ UNCHANGED <<linkUp, httpCode, payload, errorMsg, data, result, frames,
                 sched, displayState>>
  /\ UNCHANGED host

(* The polling loop without its attempt counter in the condition *)
WiFiPollUnbounded ==
  /\ pc = "connectWiFi"
  /\ attempts' = attempts + 1
  /\ linkUp' = FALSE
  /\ UNCHANGED <<pc, stages, wifiMode, httpCode, payload, errorMsg, data,
                 result, frames, sched, displayState>>
  /\ UNCHANGED host

(* One turn of the polling loop: the link is not up and attempts < 40 *)
WiFiPoll ==
  /\ pc = "connectWiFi"
  /\ attempts < WIFI_MAX_ATTEMPTS
  /\ attempts' = attempts + 1
  /\ linkUp' = FALSE
  /\ UNCHANGED <<pc, stages, wifiMode, httpCode, payload, errorMsg, data,
                 result, frames, sched, displayState>>
  /\ UNCHANGED host

(* connectWiFi whose result setup() ignores: the fetch is tried anyway *)
ConnectWiFiReturnIgnored ==
  /\ pc = "connectWiFi"
  /\ \E atLoop \in BOOLEAN, atCheck \in BOOLEAN :
       /\ atLoop \/ attempts >= WIFI_MAX_ATTEMPTS
       /\ linkUp' = atCheck
       /\ IF atCheck
          THEN UNCHANGED <<errorMsg, result>>
          ELSE /\ errorMsg' = "WiFi failed"
               /\ result' = "fail"
  /\ pc' = "fetch"
  /\ attempts' = 0
  /\ UNCHANGED <<stages, wifiMode, httpCode, payload, data, frames, sched,
                 displayState>>
  /\ UNCHANGED host

(* The loop ends (the link is up, or attempts reached 40); WiFi.status()   *)
(* is read again and decides the return value.  The local attempts ends    *)
(* with the call.                                                          *)
ConnectWiFiReturn ==
  /\ pc = "connectWiFi"
  /\ \E atLoop \in BOOLEAN, atCheck \in BOOLEAN :
       /\ atLoop \/ attempts >= WIFI_MAX_ATTEMPTS
       /\ linkUp' = atCheck
       /\ IF atCheck
          THEN /\ pc' = "fetch"
               /\ UNCHANGED <<errorMsg, result>>
          ELSE /\ errorMsg' = "WiFi failed"
               /\ result' = "fail"
               /\ pc' = "render"
  /\ attempts' = 0
  /\ UNCHANGED <<stages, wifiMode, httpCode, payload, data, frames, sched,
                 displayState>>
  /\ UNCHANGED host

(* The GET that, on a code other than 200, has the connection made anew    *)
(* instead of failing                                                      *)
HttpGetReconnect ==
  /\ pc = "fetch"
  /\ stages' = Append(stages, "fetch")
  /\ \E code \in HttpCodes :
       /\ httpCode' = code
       /\ IF code # HTTP_CODE_OK
          THEN /\ pc' = "connectWiFi_begin"
               /\ UNCHANGED <<errorMsg, result, payload>>
          ELSE /\ \E p \in Payloads : payload' = p
               /\ pc' = "decode"
               /\ UNCHANGED <<errorMsg, result>>
  /\ UNCHANGED <<attempts, linkUp, wifiMode, data, frames, sched, displayState>>
  /\ UNCHANGED host

(* The GET with a status check that only rejects the negative codes *)
HttpGetNegativeOnly ==
  /\ pc = "fetch"
  /\ stages' = Append(stages, "fetch")
  /\ \E code \in HttpCodes :
       /\ httpCode' = code
       /\ IF code < 0
          THEN /\ errorMsg' = "HTTP " \o IntToString(code)
               /\ result' = "fail"
               /\ pc' = "render"
               /\ UNCHANGED payload
          ELSE /\ \E p \in Payloads : payload' = p
               /\ pc' = "decode"
               /\ UNCHANGED <<errorMsg, result>>
  /\ UNCHANGED <<attempts, linkUp, wifiMode, data, frames, sched, displayState>>
  /\ UNCHANGED host

(* fetchPrayerTimes up to http.getString(): the GET and its status check *)
HttpGet ==
  /\ pc = "fetch"
  /\ stages' = Append(stages, "fetch")
  /\ \E code \in HttpCodes :
       /\ httpCode' = code
       /\ IF code # HTTP_CODE_OK
          THEN /\ errorMsg' = "HTTP " \o IntToString(code)
               /\ result' = "fail"
               /\ pc' = "render"
               /\ UNCHANGED payload
          ELSE /\ \E p \in Payloads : payload' = p
               /\ pc' = "decode"
               /\ UNCHANGED <<errorMsg, result>>
  /\ UNCHANGED <<attempts, linkUp, wifiMode, data, frames, sched, displayState>>
  /\ UNCHANGED host

(* The decoding with the location and the weather section read before the *)
(* mandatory-section check                                                 *)
DecodeEager ==
  /\ pc = "decode"
  /\ stages' = Append(stages, "decode")
  /\ pc' = "render"
  /\ IF ~payload.valid
     THEN /\ errorMsg' = "JSON error"
          /\ result' = "fail"
          /\ UNCHANGED data
     ELSE IF TimesIsNull(payload)
     THEN /\ errorMsg' = "No prayer_times"
          /\ result' = "fail"
          /\ prayerTimes' =
               [prayerTimes EXCEPT
                  !.location = OrStr(DocMember(payload, "location"), "")]
          /\ weatherData' = DecodeWeather(payload, weatherData)
          /\ forecast' = DecodeForecast(payload, forecast)
     ELSE /\ prayerTimes' = DecodePrayerTimes(payload)
          /\ weatherData' = DecodeWeather(payload, weatherData)
          /\ forecast' = DecodeForecast(payload, forecast)
          /\ result' = "ok"
          /\ UNCHANGED errorMsg
  /\ UNCHANGED <<attempts, linkUp, wifiMode, httpCode, payload, frames, sched,
                 displayState>>
  /\ UNCHANGED host

(* The decoding with the mandatory-section check made before the syntax    *)
(* check                                                                   *)
DecodeSectionFirst ==
  /\ pc = "decode"
  /\ stages' = Append(stages, "decode")
  /\ pc' = "render"
  /\ IF TimesIsNull(payload)
     THEN /\ errorMsg' = "No prayer_times"
          /\ result' = "fail"
          /\ UNCHANGED data
     ELSE IF ~payload.valid
     THEN /\ errorMsg' = "JSON error"
          /\ result' = "fail"
          /\ UNCHANGED data
     ELSE /\ prayerTimes' = DecodePrayerTimes(payload)
          /\ weatherData' = DecodeWeather(payload, weatherData)
          /\ forecast' = DecodeForecast(payload, forecast)
          /\ result' = "ok"
          /\ UNCHANGED errorMsg
  /\ UNCHANGED <<attempts, linkUp, wifiMode, httpCode, payload, frames, sched,
                 displayState>>
  /\ UNCHANGED host

(* fetchPrayerTimes from deserializeJson on: the syntax check, the         *)
(* mandatory-section check, the field-by-field extraction                  *)
Decode ==
  /\ pc = "decode"
  /\ stages' = Append(stages, "decode")
  /\ pc' = "render"
  /\ IF ~payload.valid
     THEN /\ errorMsg' = "JSON error"
          /\ result' = "fail"
          /\ UNCHANGED data
     ELSE IF TimesIsNull(payload)
     THEN /\ errorMsg' = "No prayer_times"
          /\ result' = "fail"
          /\ UNCHANGED data
     ELSE /\ prayerTimes' = DecodePrayerTimes(payload)
          /\ weatherData' = DecodeWeather(payload, weatherData)
          /\ forecast' = DecodeForecast(payload, forecast)
          /\ result' = "ok"
          /\ UNCHANGED errorMsg
  /\ UNCHANGED <<attempts, linkUp, wifiMode, httpCode, payload, frames, sched,
                 displayState>>
  /\ UNCHANGED host

(* displayPrayerTimes() whose pictogram routine takes the condition by      *)
(* reference, so that its toLowerCase() rewrites the forecast entry        *)
displayPrayerTimesByReference ==
  /\ frames' = Append(frames, SuccessFrame(prayerTimes, weatherData, forecast))
  /\ forecast' =
       [i \in DOMAIN forecast |->
          [forecast[i] EXCEPT !.condition = toLowerCase(@)]]
  /\ UNCHANGED <<errorMsg, prayerTimes, weatherData>>

(* displayPrayerTimes(): the screen is cleared and one full-window page is  *)
(* drawn from the globals, which the routine only reads                    *)
displayPrayerTimes ==
  /\ frames' = Append(frames, SuccessFrame(prayerTimes, weatherData, forecast))
  /\ UNCHANGED <<errorMsg, data>>

(* displayError() that lists the six times under the reason *)
displayErrorWithTimes ==
  /\ frames' =
       Append(frames,
              [ErrorFrame(errorMsg) EXCEPT
                 !.texts = @ \o <<prayerTimes.fajr, prayerTimes.shuruq,
                                  prayerTimes.dhuhr, prayerTimes.asr,
                                  prayerTimes.maghrib, prayerTimes.isha>>])
  /\ UNCHANGED <<errorMsg, data>>

(* displayError(): the screen is cleared and the headline and errorMsg are *)
(* drawn                                                                   *)
displayError ==
  /\ frames' = Append(frames, ErrorFrame(errorMsg))
  /\ UNCHANGED <<errorMsg, data>>

(* displayPrayerTimes called whatever the condition's value *)
DisplayPrayerTimesAlways ==
  /\ pc = "render"
  /\ stages' = Append(stages, "render")
  /\ frames' = Append(frames, SuccessFrame(prayerTimes, weatherData, forecast))
  /\ pc' = "goToSleep"
  /\ UNCHANGED <<attempts, linkUp, wifiMode, httpCode, payload, errorMsg, data,
                 result, sched, displayState>>
  /\ UNCHANGED host

(* if (connectWiFi() && fetchPrayerTimes()) displayPrayerTimes() *)
DisplayPrayerTimes ==
  /\ pc = "render"
  /\ result = "ok"
  /\ stages' = Append(stages, "render")
  /\ displayPrayerTimes
  /\ pc' = "goToSleep"
  /\ UNCHANGED <<attempts, linkUp, wifiMode, httpCode, payload, result, sched,
                 displayState>>
  /\ UNCHANGED host

(* displayError that stops the controller once the error is shown *)
DisplayErrorHalt ==
  /\ pc = "render"
  /\ result # "ok"
  /\ stages' = Append(stages, "render")
  /\ frames' = Append(frames, ErrorFrame(errorMsg))
  /\ pc' = "halted"
  /\ UNCHANGED <<attempts, linkUp, wifiMode, httpCode, payload, errorMsg, data,
                 result, sched, displayState>>
  /\ UNCHANGED host

(* else displayError() *)
DisplayError ==
  /\ pc = "render"
  /\ result # "ok"
  /\ stages' = Append(stages, "render")
  /\ displayError
  /\ pc' = "goToSleep"
  /\ UNCHANGED <<attempts, linkUp, wifiMode, httpCode, payload, result, sched,
                 displayState>>
  /\ UNCHANGED host

---------------------------------------------------------------------------
(* goToSleep() *)

(* syncTime: configTime, attempts = 0 *)
SyncTimeBegin ==
  /\ pc = "goToSleep"
  /\ stages' = Append(stages, "schedule")
  /\ attempts' = 0
  /\ pc' = "syncTime"
  /\ UNCHANGED <<linkUp, wifiMode, httpCode, payload, errorMsg, data, result,
                 frames, sched, displayState>>
  /\ UNCHANGED host

(* One turn of the polling loop: time(nullptr) < 1000000000 and            *)
(* attempts < 20                                                           *)
SyncPoll ==
  /\ pc = "syncTime"
  /\ attempts < SYNC_MAX_ATTEMPTS
  /\ attempts' = attempts + 1
  /\ timeSynced' = FALSE
  /\ UNCHANGED <<pc, stages, linkUp, wifiMode, httpCode, payload, errorMsg,
                 data, result, frames, timeinfo, sleepSeconds, timerUs,
                 displayState>>
  /\ UNCHANGED host

(* The loop ends: the clock is set, or attempts reached 20 *)
SyncTimeReturn ==
  /\ pc = "syncTime"
  /\ \E synced \in BOOLEAN :
       /\ synced \/ attempts >= SYNC_MAX_ATTEMPTS
       /\ timeSynced' = synced
  /\ attempts' = 0
  /\ pc' = "calc"
  /\ UNCHANGED <<stages, linkUp, wifiMode, httpCode, payload, errorMsg, data,
                 result, frames, timeinfo, sleepSeconds, timerUs, displayState>>
  /\ UNCHANGED host

(* unsigned long sleepSeconds = calculateSleepSeconds(), with the reading  *)
(* r that getLocalTime delivers                                            *)
CalculateSleepSeconds(r) ==
  /\ pc = "calc"
  /\ timeinfo' = r
  /\ sleepSeconds' = calculateSleepSeconds(r)
  /\ pc' = "shutdown"
  /\ UNCHANGED <<stages, attempts, linkUp, wifiMode, httpCode, payload,
                 errorMsg, data, result, frames, timeSynced, timerUs,
                 displayState>>
  /\ UNCHANGED host

(* The shutdown without display.hibernate() *)
ShutdownWithoutHibernate ==
  /\ pc = "shutdown"
  /\ linkUp' = FALSE
  /\ wifiMode' = "OFF"
  /\ pc' = "arm"
  /\ UNCHANGED <<stages, attempts, httpCode, payload, errorMsg, data, result,
                 frames, sched, displayState>>
  /\ UNCHANGED host

(* WiFi.disconnect(true), WiFi.mode(WIFI_OFF), display.hibernate() *)
Shutdown ==
  /\ pc = "shutdown"
  /\ linkUp' = FALSE
  /\ wifiMode' = "OFF"
  /\ displayState' = "hibernate"
  /\ pc' = "arm"
  /\ UNCHANGED <<stages, attempts, httpCode, payload, errorMsg, data, result,
                 frames, sched>>
  /\ UNCHANGED host

(* The product computed in unsigned long and then widened *)
ArmTimerInUnsignedLong ==
  /\ pc = "arm"
  /\ timerUs' = Extend(MulWord(sleepSeconds, ToWord(1000000, 4), ULONG_BYTES),
                        ULLONG_BYTES)
  /\ pc' = "deep_sleep_start"
  /\ UNCHANGED <<stages, attempts, linkUp, wifiMode, httpCode, payload,
                 errorMsg, data, result, frames, timeSynced, timeinfo,
                 sleepSeconds, displayState>>
  /\ UNCHANGED host

(* esp_sleep_enable_timer_wakeup(sleepSeconds * 1000000ULL) *)
ArmTimer ==
  /\ pc = "arm"
  /\ timerUs' = MulWord(Extend(sleepSeconds, ULLONG_BYTES),
                         Extend(ToWord(1000000, 4), ULLONG_BYTES),
                         ULLONG_BYTES)
  /\ pc' = "deep_sleep_start"
  /\ UNCHANGED <<stages, attempts, linkUp, wifiMode, httpCode, payload,
                 errorMsg, data, result, frames, timeSynced, timeinfo,
                 sleepSeconds, displayState>>
  /\ UNCHANGED host

(* esp_deep_sleep_start(): the run ends *)
DeepSleepStart ==
  /\ pc = "deep_sleep_start"
  /\ stages' = Append(stages, "sleep")
  /\ pc' = "asleep"
  /\ UNCHANGED <<attempts, linkUp, wifiMode, httpCode, payload, errorMsg, data,
                 result, frames, sched, displayState>>
  /\ UNCHANGED host

(* The wake timer fires: the chip resets, the globals are constructed      *)
(* anew and setup() runs again                                             *)
Wake ==
  /\ pc = "asleep"
  /\ pc' = "boot"
  /\ stages' = <<>>
  /\ attempts' = 0
  /\ linkUp' = FALSE
  /\ wifiMode' = "NULL"
  /\ httpCode' = 0
  /\ payload' = NoPayload
  /\ errorMsg' = ""
  /\ prayerTimes' = InitPrayerTimes
  /\ weatherData' = InitWeatherData
  /\ forecast' = InitForecast
  /\ result' = "none"
  /\ frames' = <<>>
  /\ timeSynced' = FALSE
  /\ timeinfo' = NoReading
  /\ sleepSeconds' = ToWord(0, ULONG_BYTES)
  /\ timerUs' = Extend(<<>>, ULLONG_BYTES)
  /\ displayState' = "off"
  /\ UNCHANGED host

GetLocalTime ==
  /\ pc = "calc"
  /\ \E r \in ClockSamples : CalculateSleepSeconds(r)

Next ==
  \/ Boot
  \/ ConnectWiFiBegin
  \/ WiFiPoll
  \/ ConnectWiFiReturn
  \/ HttpGet
  \/ Decode
  \/ DisplayPrayerTimes
  \/ DisplayError
  \/ SyncTimeBegin
  \/ SyncPoll
  \/ SyncTimeReturn
  \/ GetLocalTime
  \/ Shutdown
  \/ ArmTimer
  \/ DeepSleepStart
  \/ Wake

Spec == Init /\ [][Next]_vars

(* The scheduling of a single thread that runs to completion: a step that  *)
(* can be taken is eventually taken                                        *)
FairSpec == Spec /\ WF_vars(Next)

---------------------------------------------------------------------------
(* The Wake Scheduler alone: from the state in which goToSleep calls       *)
(* calculateSleepSeconds after a failed connection, over every reading of  *)
(* the clock                                                               *)

SleepInit ==
  /\ pc = "calc"
  /\ stages = <<"connect", "render", "schedule">>
  /\ attempts = 0
  /\ linkUp = FALSE
  /\ wifiMode = "STA"
  /\ httpCode = 0
  /\ payload = NoPayload
  /\ errorMsg = "WiFi failed"
  /\ prayerTimes = InitPrayerTimes
  /\ weatherData = InitWeatherData
  /\ forecast = InitForecast
  /\ result = "fail"
  /\ frames = <<ErrorFrame("WiFi failed")>>
  /\ timeSynced \in BOOLEAN
  /\ timeinfo = NoReading
  /\ sleepSeconds = ToWord(0, ULONG_BYTES)
  /\ timerUs = Extend(<<>>, ULLONG_BYTES)
  /\ displayState = "ready"
  /\ HostIdle

GetAnyLocalTime ==
  /\ pc = "calc"
  /\ \E r \in AllReadings : CalculateSleepSeconds(r)

SleepNext == GetAnyLocalTime

SleepSpec == SleepInit /\ [][SleepNext]_vars

(* goToSleep from the call of calculateSleepSeconds to the armed timer,    *)
(* over every reading of the clock and so every sleepSeconds               *)
TimerNext ==
  \/ GetAnyLocalTime
  \/ Shutdown
  \/ ArmTimer

TimerSpec == SleepInit /\ [][TimerNext]_vars

---------------------------------------------------------------------------
(* The render routines alone.  displayPrayerTimes and displayError take    *)
(* their inputs from the globals, so they are applied to every snapshot    *)
(* and reason of a bounded family, and may be called again on the same     *)
(* globals.                                                                *)

(* Icon codes: OpenWeatherMap's day and night codes, codes of no category, *)
(* and codes that carry a known prefix elsewhere than at their start       *)
IconCodes ==
  {"", "01d", "01n", "02d", "02n", "03d", "04n", "09d", "10n", "11d", "13d",
   "50d", "0", "1", "05d", "d01", "x13d", "010", "1001", "5"}

(* Condition texts: each keyword alone, in other letter cases, inside      *)
(* longer texts, texts of no category, and texts with keywords of several  *)
(* categories                                                              *)
ConditionTexts ==
  {"", "N/A", "Clear", "clear sky", "Sunny", "SUN", "Clouds", "few clouds",
   "OVERCAST CLOUDS", "Rain", "light rain", "Drizzle", "Snow", "Thunderstorm",
   "Storm", "Mist", "Fog", "Haze", "Smoke", "Dust", "clea", "sno w",
   "thunderstorm with light rain", "Cloudy with sunny spells",
   "Snow and rain", "thundersnow", "Foggy, clouds later", "hazy sunshine",
   "Rainstorm", "misty rain", "snowstorm in the fog", "Stormy mist"}

(* The snapshot a complete payload decodes to *)
GoodDoc == Doc(GoodTimes, JStr("Berlin"), GoodWeather)
GoodPrayerTimes == DecodePrayerTimes(GoodDoc)
GoodWeatherData == DecodeWeather(GoodDoc, InitWeatherData)
GoodForecastDays == DecodeForecast(GoodDoc, InitForecast)

(* Snapshots <<prayerTimes, weatherData, forecast>>: the globals as        *)
(* constructed, and the complete snapshot with every icon code and with    *)
(* every condition text in each of the three forecast entries              *)
Snapshots ==
  {<<InitPrayerTimes, InitWeatherData, InitForecast>>}
  \cup {<<GoodPrayerTimes, [GoodWeatherData EXCEPT !.icon = c],
          GoodForecastDays>> : c \in IconCodes}
  \cup {<<GoodPrayerTimes, GoodWeatherData,
          [GoodForecastDays EXCEPT ![i].condition = c]>> :
          i \in 0..(FORECAST_CAPACITY - 1), c \in ConditionTexts}

(* How the cycle stood when setup() chose the routine: the stages run, the *)
(* GET's code, the result and the reason                                   *)
Outcome(ran, code, res, msg) ==
  [stages |-> ran, httpCode |-> code, result |-> res, errorMsg |-> msg]

Outcomes ==
  {Outcome(<<"connect", "fetch", "decode">>, 200, "ok", ""),
   Outcome(<<"connect">>, 0, "fail", "WiFi failed"),
   Outcome(<<"connect", "fetch">>, 404, "fail", "HTTP 404"),
   Outcome(<<"connect", "fetch">>, -1, "fail", "HTTP -1"),
   Outcome(<<"connect", "fetch", "decode">>, 200, "fail", "JSON error"),
   Outcome(<<"connect", "fetch", "decode">>, 200, "fail", "No prayer_times")}

RenderInit ==
  /\ pc = "render"
  /\ \E o \in Outcomes :
       /\ stages = o.stages
       /\ httpCode = o.httpCode
       /\ result = o.result
       /\ errorMsg = o.errorMsg
       /\ linkUp = (o.httpCode # 0)
  /\ \E s \in Snapshots :
       /\ prayerTimes = s[1]
       /\ weatherData = s[2]
       /\ forecast = s[3]
  /\ attempts = 0
  /\ wifiMode = "STA"
  /\ payload = NoPayload
  /\ frames = <<>>
  /\ timeSynced = FALSE
  /\ timeinfo = NoReading
  /\ sleepSeconds = ToWord(0, ULONG_BYTES)
  /\ timerUs = Extend(<<>>, ULLONG_BYTES)
  /\ displayState = "ready"
  /\ HostIdle

(* A call of displayPrayerTimes() *)
RenderPrayerTimes ==
  /\ pc = "render"
  /\ result = "ok"
  /\ Len(frames) < MaxRenders
  /\ displayPrayerTimes
  /\ UNCHANGED <<pc, stages, attempts, linkUp, wifiMode, httpCode, payload,
                 result, sched, displayState>>
  /\ UNCHANGED host

(* A call of displayError() *)
RenderError ==
  /\ pc = "render"
  /\ result # "ok"
  /\ Len(frames) < MaxRenders
  /\ displayError
  /\ UNCHANGED <<pc, stages, attempts, linkUp, wifiMode, httpCode, payload,
                 result, sched, displayState>>
  /\ UNCHANGED host

RenderNext == RenderPrayerTimes \/ RenderError

RenderSpec == RenderInit /\ [][RenderNext]_vars

---------------------------------------------------------------------------
(* read_data.cpp: main() *)

(* basic_json::at(key) on a value of the given type whose member of that   *)
(* name is member: the exception thrown, "none" when the call returns.     *)
(* at() throws type_error on a value that is not an object and             *)
(* out_of_range on an object without the key.                              *)
AtThrows(type, member) ==
  IF type # "object" THEN "type_error"
  ELSE IF member.type = "absent" THEN "out_of_range"
  ELSE "none"

(* The conversion of a value to std::string throws type_error unless the   *)
(* value is a string                                                       *)
ToStdStringThrows(v) == IF v.type = "string" THEN "none" ELSE "type_error"

(* std::string fajr_time = data.at("prayer_times").at("fajr"): the first   *)
(* exception thrown, "none" when fajr_time is initialised                  *)
FajrThrows(d) ==
  IF AtThrows(d.root, d.prayer_times) # "none"
  THEN AtThrows(d.root, d.prayer_times)
  ELSE IF AtThrows(d.prayer_times.type, d.prayer_times.fajr) # "none"
  THEN AtThrows(d.prayer_times.type, d.prayer_times.fajr)
  ELSE ToStdStringThrows(d.prayer_times.fajr)

ReadDataInit ==
  /\ pc = "boot"
  /\ stages = <<>>
  /\ attempts = 0
  /\ linkUp = FALSE
  /\ wifiMode = "NULL"
  /\ httpCode = 0
  /\ payload = NoPayload
  /\ errorMsg = ""
  /\ prayerTimes = InitPrayerTimes
  /\ weatherData = InitWeatherData
  /\ forecast = InitForecast
  /\ result = "none"
  /\ frames = <<>>
  /\ timeSynced = FALSE
  /\ timeinfo = NoReading
  /\ sleepSeconds = ToWord(0, ULONG_BYTES)
  /\ timerUs = Extend(<<>>, ULLONG_BYTES)
  /\ displayState = "off"
  /\ argv \in Commands
  /\ disk \in [Paths -> Files]
  /\ hostPc = "main"
  /\ filePath = ""
  /\ fileData = NullJson
  /\ cout = <<>>
  /\ cerr = <<>>
  /\ exitStatus = "none"

(* filePath: the default, or argv[1] when an argument is given *)
ChoosePath ==
  /\ hostPc = "main"
  /\ filePath' = IF Len(argv) > 1 THEN argv[2] ELSE DefaultPath
  /\ hostPc' = "open"
  /\ UNCHANGED <<argv, disk, fileData, cout, cerr, exitStatus>>
  /\ UNCHANGED device

(* std::ifstream inputFile(filePath); if (!inputFile.is_open()) return 1 *)
OpenFile ==
  /\ hostPc = "open"
  /\ IF disk[filePath].exists
     THEN /\ hostPc' = "parse"
          /\ UNCHANGED <<cerr, exitStatus>>
     ELSE /\ cerr' = Append(cerr, "Error: Could not open file '"
                                    \o filePath \o "'")
          /\ exitStatus' = "returned 1"
          /\ hostPc' = "exited"
  /\ UNCHANGED <<argv, disk, filePath, fileData, cout>>
  /\ UNCHANGED device

(* data = json::parse(inputFile), with its catch of json::parse_error *)
ParseFile ==
  /\ hostPc = "parse"
  /\ IF disk[filePath].valid
     THEN /\ fileData' = [root |-> disk[filePath].root,
                          prayer_times |-> disk[filePath].prayer_times]
          /\ hostPc' = "access"
          /\ UNCHANGED <<cerr, exitStatus>>
     ELSE /\ cerr' = Append(cerr, "Error: JSON parsing failed.")
          /\ exitStatus' = "returned 1"
          /\ hostPc' = "exited"
          /\ UNCHANGED fileData
  /\ UNCHANGED <<argv, disk, filePath, cout>>
  /\ UNCHANGED device

(* The second try block: the lookup, the print, and the catch of           *)
(* json::out_of_range.  No handler catches json::type_error: the exception *)
(* leaves main() and std::terminate ends the program.                      *)
ReadFajr ==
  /\ hostPc = "access"
  /\ CASE FajrThrows(fileData) = "none" ->
            /\ cout' = Append(cout, "Fajr prayer time: "
                                      \o fileData.prayer_times.fajr.s)
            /\ hostPc' = "return"
            /\ UNCHANGED <<cerr, exitStatus>>
       [] FajrThrows(fileData) = "out_of_range" ->
            /\ cerr' = Append(cerr,
                              "Error: Could not find required key in JSON.")
            /\ exitStatus' = "returned 1"
            /\ hostPc' = "exited"
            /\ UNCHANGED cout
       [] FajrThrows(fileData) = "type_error" ->
            /\ exitStatus' = "terminated"
            /\ hostPc' = "exited"
            /\ UNCHANGED <<cout, cerr>>
  /\ UNCHANGED <<argv, disk, filePath, fileData>>
  /\ UNCHANGED device

(* return 0 *)
ReturnSuccess ==
  /\ hostPc = "return"
  /\ exitStatus' = "returned 0"
  /\ hostPc' = "exited"
  /\ UNCHANGED <<argv, disk, filePath, fileData, cout, cerr>>
  /\ UNCHANGED device

ReadDataNext ==
  \/ ChoosePath
  \/ OpenFile
  \/ ParseFile
  \/ ReadFajr
  \/ ReturnSuccess

ReadDataSpec == ReadDataInit /\ [][ReadDataNext]_vars

---------------------------------------------------------------------------
(* Properties *)

Scheduled == pc \in {"shutdown", "arm", "deep_sleep_start", "asleep"}

NowSeconds == timeinfo.hour * 3600 + timeinfo.min * 60 + timeinfo.sec
TargetSeconds == WAKE_HOUR * 3600 + WAKE_MINUTE * 60

C2_SleepInRange ==
  Scheduled =>
     /\ FitsInt(sleepSeconds)
     /\ WordValue(sleepSeconds) > 0
     /\ WordValue(sleepSeconds) <= 86400

(* A cycle that rendered data goes to sleep one second after the target *)
C2_Witness ==
  /\ pc = "asleep"
  /\ result = "ok"
  /\ timeinfo = Reading(0, 10, 1)
  /\ WordValue(sleepSeconds) = 86399

C4_AlwaysSleeps ==
  /\ (pc \in {"boot", "connectWiFi", "fetch", "decode", "render"})
        ~> (pc = "calc")
  /\ (pc = "calc")
        ~> (pc = "asleep" /\ timerUs # Extend(<<>>, ULLONG_BYTES))

(* A cycle whose payload was not JSON is asleep with the timer armed *)
C4_Witness ==
  /\ pc = "asleep"
  /\ errorMsg = "JSON error"
  /\ frames # <<>>
  /\ timerUs # Extend(<<>>, ULLONG_BYTES)

Ran(stage) == \E i \in 1..Len(stages) : stages[i] = stage

Rendered == Ran("render")

(* C5: when connectWiFi returns false the cycle goes straight to the error *)
(* layout with the reason "WiFi failed"; fetchPrayerTimes (the GET and the *)
(* decoding) is never executed in that cycle.                              *)
C5_WiFiFailureSkipsFetch ==
  errorMsg = "WiFi failed" =>
     /\ ~Ran("fetch") /\ ~Ran("decode")
     /\ pc \notin {"fetch", "decode"}
     /\ httpCode = 0 /\ payload = NoPayload
     /\ ~Rendered => (pc = "render" /\ stages = <<"connect">>)
     /\ Rendered => frames = <<[layout |-> "error",
                                texts |-> <<"Error", "WiFi failed">>,
                                icons |-> <<>>]>>

(* connectWiFi returned false and the error layout was drawn *)
C5_Witness ==
  /\ errorMsg = "WiFi failed"
  /\ ~linkUp
  /\ pc = "goToSleep"
  /\ Len(frames) = 1 /\ frames[1].layout = "error"

(* Connecting, fetching and decoding all succeeded *)
AllSucceeded ==
  /\ Ran("fetch") /\ httpCode = 200
  /\ Ran("decode") /\ payload.valid
  /\ payload.root = "object" /\ payload.prayer_times.type = "object"

(* C6: exactly one rendering is performed per cycle: the success layout    *)
(* if and only if connecting, fetching and decoding all succeeded, the     *)
(* error layout otherwise; never both, never neither.                      *)
C6_OneLayout ==
  /\ pc \in {"boot", "connectWiFi_begin", "connectWiFi", "fetch", "decode",
             "render"} => frames = <<>>
  /\ pc \in {"goToSleep", "syncTime", "calc", "shutdown", "arm",
             "deep_sleep_start", "asleep"} =>
       /\ Len(frames) = 1
       /\ frames[1].layout \in {"success", "error"}
       /\ frames[1].layout = "success" <=> AllSucceeded

(* A cycle that drew the success layout, once, and went to sleep *)
C6_Witness ==
  /\ pc = "asleep"
  /\ AllSucceeded
  /\ Len(frames) = 1 /\ frames[1].layout = "success"

(* The payload parses as JSON and has no object-shaped prayer_times *)
MissingSection ==
  /\ Ran("decode") /\ payload.valid
  /\ \/ payload.root # "object"
     \/ payload.prayer_times.type # "object"

(* C7: a payload that parses as JSON but whose prayer_times field is       *)
(* absent or not an object fails decoding with the reason                  *)
(* "No prayer_times", whatever other sections it carries, and the cycle    *)
(* renders the error layout.                                               *)
C7_MissingSectionFails ==
  MissingSection =>
     /\ result = "fail"
     /\ errorMsg = "No prayer_times"
     /\ Rendered => frames = <<[layout |-> "error",
                                texts |-> <<"Error", "No prayer_times">>,
                                icons |-> <<>>]>>

(* prayer_times is a string, weather and location are complete *)
C7_Witness ==
  /\ MissingSection
  /\ payload.prayer_times.type = "string"
  /\ payload.weather = GoodWeather
  /\ payload.location.type = "string"
  /\ Len(frames) = 1 /\ frames[1].layout = "error"

(* The payload parses as JSON and has an object-shaped prayer_times *)
Decodable ==
  /\ Ran("decode") /\ payload.valid
  /\ payload.root = "object" /\ payload.prayer_times.type = "object"

(* What a field must hold for a given JSON value: the literal value when   *)
(* the value is of the field's type, the sentinel otherwise                *)
HoldsStr(actual, v, sentinel) ==
  IF v.type = "string" THEN actual = v.s ELSE actual = sentinel

HoldsInt(actual, v) == IF v.type = "int" THEN actual = v.n ELSE actual = 0

HoldsTenths(actual, v) ==
  CASE v.type = "float" -> actual = v.n
    [] v.type = "int" -> actual = 10 * v.n
    [] OTHER -> actual = 0

(* The JSON value at weather.current.<name>, absent when a section on the  *)
(* way is absent or not an object                                          *)
CurrentValue(name) ==
  IF payload.weather.type = "object" /\ payload.weather.current.type = "object"
  THEN payload.weather.current[name]
  ELSE JAbsent

HasForecastList ==
  payload.weather.type = "object" /\ payload.weather.forecast.type = "array"

(* The JSON value at weather.forecast[i].<name> *)
DayValue(i, name) ==
  IF /\ HasForecastList
     /\ i < Len(payload.weather.forecast.items)
     /\ payload.weather.forecast.items[i + 1].type = "object"
  THEN payload.weather.forecast.items[i + 1][name]
  ELSE JAbsent

DayHolds(i) ==
  /\ HoldsStr(forecast[i].date, DayValue(i, "date"), "")
  /\ HoldsInt(forecast[i].high, DayValue(i, "high"))
  /\ HoldsInt(forecast[i].low, DayValue(i, "low"))
  /\ HoldsStr(forecast[i].condition, DayValue(i, "condition"), "")

(* The frame prints value right after label *)
ShownAfter(frame, label, value) ==
  \E k \in 1..(Len(frame.texts) - 1) :
     frame.texts[k] = label /\ frame.texts[k + 1] = value

(* C8: with prayer_times present and object-shaped, every field (the six   *)
(* prayer times, location, the four current-weather fields, the four       *)
(* fields of each forecast entry) that is absent or ill-typed holds its    *)
(* sentinel and every well-typed field holds its literal value; decoding   *)
(* succeeds and the success layout is rendered with those times.           *)
C8_FieldDefaults ==
  Decodable =>
     /\ result = "ok" /\ errorMsg = ""
     /\ HoldsStr(prayerTimes.fajr, payload.prayer_times.fajr, "N/A")
     /\ HoldsStr(prayerTimes.shuruq, payload.prayer_times.shuruq, "N/A")
     /\ HoldsStr(prayerTimes.dhuhr, payload.prayer_times.dhuhr, "N/A")
     /\ HoldsStr(prayerTimes.asr, payload.prayer_times.asr, "N/A")
     /\ HoldsStr(prayerTimes.maghrib, payload.prayer_times.maghrib, "N/A")
     /\ HoldsStr(prayerTimes.isha, payload.prayer_times.isha, "N/A")
     /\ HoldsStr(prayerTimes.location, payload.location, "")
     /\ HoldsInt(weatherData.temperature, CurrentValue("temperature"))
     /\ HoldsStr(weatherData.condition, CurrentValue("condition"), "N/A")
     /\ HoldsTenths(weatherData.windSpeed, CurrentValue("wind_speed"))
     /\ HoldsStr(weatherData.icon, CurrentValue("icon"), "")
     /\ \A i \in 0..2 : DayHolds(i)
     /\ Rendered =>
          /\ Len(frames) = 1 /\ frames[1].layout = "success"
          /\ ShownAfter(frames[1], "Fajr", prayerTimes.fajr)
          /\ ShownAfter(frames[1], "Sunrise", prayerTimes.shuruq)
          /\ ShownAfter(frames[1], "Dhuhr", prayerTimes.dhuhr)
          /\ ShownAfter(frames[1], "Asr", prayerTimes.asr)
          /\ ShownAfter(frames[1], "Maghrib", prayerTimes.maghrib)
          /\ ShownAfter(frames[1], "Isha", prayerTimes.isha)

(* Four of the six times are present, fajr and isha are absent: the frame  *)
(* shows the four literal times and "N/A" twice                            *)
C8_Witness ==
  /\ Decodable /\ Rendered
  /\ payload.prayer_times.fajr.type = "absent"
  /\ payload.prayer_times.isha.type = "absent"
  /\ ShownAfter(frames[1], "Fajr", "N/A")
  /\ ShownAfter(frames[1], "Sunrise", "06:48")
  /\ ShownAfter(frames[1], "Dhuhr", "12:30")
  /\ ShownAfter(frames[1], "Asr", "15:17")
  /\ ShownAfter(frames[1], "Maghrib", "18:05")
  /\ ShownAfter(frames[1], "Isha", "N/A")

(* The date labels of the cards a frame shows *)
Shows(frame, text) == \E k \in 1..Len(frame.texts) : frame.texts[k] = text

(* C9: of a forecast list of 3 or more entries exactly the first 3 are     *)
(* stored, in input order: forecast[i] is the list's i-th entry for        *)
(* i = 0, 1, 2; later entries are neither stored nor shown and do not fail *)
(* the cycle.                                                              *)
C9_FirstThreeKept ==
  (Decodable /\ HasForecastList /\ Len(payload.weather.forecast.items) >= 3) =>
     /\ result = "ok" /\ errorMsg = ""
     /\ DOMAIN forecast = 0..2
     /\ \A i \in 0..2 : DayHolds(i)
     /\ Rendered =>
          /\ frames[1].layout = "success"
          /\ \A j \in 4..Len(payload.weather.forecast.items) :
               ~Shows(frames[1], "1" \o Digit(j) \o ".03")

(* Five complete entries: the first three are stored and shown *)
C9_Witness ==
  /\ Decodable /\ Rendered
  /\ HasForecastList
  /\ Len(payload.weather.forecast.items) = 5
  /\ \A i \in 1..5 : payload.weather.forecast.items[i].type = "object"
  /\ forecast[0].date = "2025-03-11" /\ forecast[0].high = 11
  /\ forecast[1].date = "2025-03-12" /\ forecast[1].high = 12
  /\ forecast[2].date = "2025-03-13" /\ forecast[2].high = 13
  /\ Shows(frames[1], "11.03") /\ Shows(frames[1], "13.03")
  /\ ~Shows(frames[1], "14.03") /\ ~Shows(frames[1], "15.03")

(* The reason the error layout gives for each failing status code *)
ReasonOf(code) ==
  CASE code = 204 -> "HTTP 204"
    [] code = 404 -> "HTTP 404"
    [] code = 500 -> "HTTP 500"
    [] code = -1 -> "HTTP -1"
    [] code = -11 -> "HTTP -11"

(* C10: when the GET completes with a code other than 200 (every           *)
(* non-success status, and the negative transport codes), fetching fails,  *)
(* the reason carries that code, the payload is never read or parsed, and  *)
(* the cycle renders the error layout.                                     *)
C10_HttpFailure ==
  (Ran("fetch") /\ httpCode # 200) =>
     /\ result = "fail"
     /\ errorMsg = ReasonOf(httpCode)
     /\ payload = NoPayload
     /\ ~Ran("decode") /\ pc # "decode"
     /\ prayerTimes = InitPrayerTimes
     /\ ~Rendered => pc = "render"
     /\ Rendered => frames = <<[layout |-> "error",
                                texts |-> <<"Error", ReasonOf(httpCode)>>,
                                icons |-> <<>>]>>

(* A 404 was answered and the error layout shows "HTTP 404" *)
C10_Witness ==
  /\ httpCode = 404
  /\ ~Ran("decode")
  /\ frames = <<[layout |-> "error", texts |-> <<"Error", "HTTP 404">>,
                 icons |-> <<>>]>>

(* The GET ended with one of HTTPClient's negative codes: a timeout or a   *)
(* failure of the link                                                     *)
TransportFailed == Ran("fetch") /\ httpCode < 0

(* The duration calculateSleepSeconds owes for the reading in timeinfo *)
SleepComputed ==
  /\ FitsInt(sleepSeconds)
  /\ WordValue(sleepSeconds) =
       IF ~timeinfo.ok THEN 86400
       ELSE IF NowSeconds < TargetSeconds THEN TargetSeconds - NowSeconds
       ELSE TargetSeconds - NowSeconds + 86400

(* C11: when the GET fails with a transport error, the cycle renders the   *)
(* error layout with a reason that names the negative code ("HTTP -..."),  *)
(* which no HTTP status failure produces; afterwards the clock is          *)
(* synchronised and the sleep duration is computed from the clock reading  *)
(* as on the success path.                                                 *)
C11_TransportFailure ==
  /\ [](TransportFailed =>
          /\ result = "fail"
          /\ Len(errorMsg) > 6 /\ SubSeq(errorMsg, 1, 6) = "HTTP -"
          /\ Rendered => frames = <<[layout |-> "error",
                                     texts |-> <<"Error", errorMsg>>,
                                     icons |-> <<>>]>>)
  /\ []((Ran("fetch") /\ httpCode > 0 /\ httpCode # 200) =>
          /\ Len(errorMsg) >= 6 /\ SubSeq(errorMsg, 1, 6) # "HTTP -")
  /\ (TransportFailed /\ pc = "render")
        ~> (TransportFailed /\ pc = "syncTime" /\ Len(frames) = 1)
  /\ (TransportFailed /\ pc = "syncTime")
        ~> (TransportFailed /\ pc = "shutdown" /\ SleepComputed)

(* The GET timed out; the error layout told so, the clock was read and the *)
(* sleep until the next 00:10 computed                                     *)
C11_Witness ==
  /\ pc = "shutdown"
  /\ httpCode = -11
  /\ frames = <<[layout |-> "error", texts |-> <<"Error", "HTTP -11">>,
                 icons |-> <<>>]>>
  /\ timeSynced
  /\ timeinfo = Reading(12, 0, 0)
  /\ WordValue(sleepSeconds) = 43800

(* The strings the success layout would draw from the current snapshot:    *)
(* the times, the location, the temperature, the condition, the cards'     *)
(* labels and temperatures                                                 *)
SnapshotTexts ==
  LET drawn == SuccessFrame(prayerTimes, weatherData, forecast).texts
  IN {drawn[j] : j \in 1..Len(drawn)}

(* C12: the error layout draws the headline "Error" and the reason in      *)
(* errorMsg and nothing else: no pictogram and none of the strings of the  *)
(* success layout (title, prayer names and times, location, temperature,   *)
(* condition, forecast labels and temperatures), whatever the snapshot     *)
(* holds; and every failed outcome is drawn with that layout.              *)
C12_ErrorLayoutOnly ==
  \A k \in 1..Len(frames) :
     /\ result # "ok" => frames[k].layout = "error"
     /\ frames[k].layout = "error" =>
          /\ frames[k].texts = <<"Error", errorMsg>>
          /\ frames[k].icons = <<>>
          /\ \A v \in SnapshotTexts : ~Shows(frames[k], v)

(* The error layout drawn while the snapshot holds a complete set of data *)
C12_Witness ==
  /\ Len(frames) >= 1
  /\ errorMsg = "No prayer_times"
  /\ prayerTimes.fajr = "05:12" /\ prayerTimes.location = "Berlin"
  /\ weatherData.temperature = 21 /\ weatherData.icon = "01d"
  /\ forecast[2].date = "2025-03-13"
  /\ frames[1].layout = "error"
  /\ frames[1].texts = <<"Error", "No prayer_times">>

GivenFile == disk[filePath]

FajrReadable ==
  /\ GivenFile.exists /\ GivenFile.valid
  /\ GivenFile.root = "object"
  /\ GivenFile.prayer_times.type = "object"
  /\ GivenFile.prayer_times.fajr.type = "string"

(* C14: read_data returns 0 only after printing the Fajr time read from    *)
(* prayer_times.fajr, returns 1 whenever the file cannot be opened, is not *)
(* valid JSON, or its prayer_times / fajr value cannot be read, and ends   *)
(* in no other way than by returning 0 or 1.                               *)
C14_ReadDataExit ==
  /\ exitStatus = "returned 0" =>
       /\ FajrReadable
       /\ cout = <<"Fajr prayer time: " \o GivenFile.prayer_times.fajr.s>>
  /\ hostPc = "exited" =>
       /\ exitStatus \in {"returned 0", "returned 1"}
       /\ ~FajrReadable => exitStatus = "returned 1"

(* The place of a stage in the pipeline *)
StageRank(stage) ==
  CASE stage = "connect" -> 1 [] stage = "fetch" -> 2 [] stage = "decode" -> 3
    [] stage = "render" -> 4 [] stage = "schedule" -> 5 [] stage = "sleep" -> 6

(* The stage the program counter is in; 0 before connectWiFi is called *)
StageAt(at) ==
  CASE at = "boot" -> 0
    [] at \in {"connectWiFi_begin", "connectWiFi"} -> 1
    [] at = "fetch" -> 2
    [] at = "decode" -> 3
    [] at = "render" -> 4
    [] at \in {"goToSleep", "syncTime", "calc", "shutdown", "arm",
               "deep_sleep_start"} -> 5
    [] at = "asleep" -> 6

(* C15: within a cycle the stages are entered in the order connect, fetch, *)
(* decode, render, schedule, sleep: the stages entered so far are strictly *)
(* increasing in that order (so none is entered twice), and control never  *)
(* moves to an earlier stage than the one it is in, until the wake-up      *)
(* starts the next cycle.                                                  *)
C15_StageOrder ==
  /\ [](\A i \in 1..Len(stages), j \in 1..Len(stages) :
          i < j => StageRank(stages[i]) < StageRank(stages[j]))
  /\ [](\A i \in 1..Len(stages) : StageRank(stages[i]) <= StageAt(pc) + 1)
  /\ [][StageAt(pc') >= StageAt(pc) \/ (pc = "asleep" /\ pc' = "boot")]_vars

(* A cycle that went through all six stages *)
C15_Witness ==
  /\ pc = "asleep"
  /\ stages = <<"connect", "fetch", "decode", "render", "schedule", "sleep">>

(* C16: both polling waits are bounded by their attempt counters and end   *)
(* as soon as their condition is met: connectWiFi waits at most 40 times   *)
(* and syncTime at most 20 times, a further wait is made only after a read *)
(* that found the link down (the clock unset), and the loop can be left at *)
(* every count.  connectWiFi returns true (the cycle goes on to the fetch) *)
(* exactly when the status read once the loop has ended says connected,    *)
(* whatever the count; otherwise it returns false with the reason          *)
(* "WiFi failed".                                                          *)
C16_BoundedPolling ==
  /\ [](pc = "connectWiFi" =>
          /\ attempts <= 40
          /\ attempts = 40 => ~ENABLED WiFiPoll
          /\ ENABLED ConnectWiFiReturn)
  /\ [](pc = "syncTime" =>
          /\ attempts <= 20
          /\ attempts = 20 => ~ENABLED SyncPoll
          /\ ENABLED SyncTimeReturn)
  /\ [][(pc = "connectWiFi" /\ pc' = "connectWiFi") =>
          (attempts' = attempts + 1 /\ ~linkUp')]_vars
  /\ [][(pc = "syncTime" /\ pc' = "syncTime") =>
          (attempts' = attempts + 1 /\ ~timeSynced')]_vars
  /\ [][(pc = "connectWiFi" /\ pc' # "connectWiFi") =>
          \/ linkUp' /\ pc' = "fetch" /\ errorMsg' = "" /\ result' = "none"
          \/ ~linkUp' /\ pc' = "render" /\ errorMsg' = "WiFi failed"
               /\ result' = "fail"]_vars

(* connectWiFi returned true, the data were rendered, and syncTime has     *)
(* waited 20 times without the clock being set: it can only return         *)
C16_Witness ==
  /\ pc = "syncTime"
  /\ attempts = 20
  /\ ~timeSynced
  /\ linkUp /\ result = "ok"
  /\ ~ENABLED SyncPoll
  /\ ENABLED SyncTimeReturn

(* The payload decodes and its weather section is an object *)
WeatherPresent == Decodable /\ payload.weather.type = "object"

(* C17: with the weather section present, the current-weather fields and   *)
(* the forecast entries are each decided by their own sub-section alone:   *)
(* when "current" is absent or not an object, temperature, condition,      *)
(* wind speed and icon keep their sentinels, and the forecast entries are  *)
(* populated from weather.forecast all the same; when the forecast list is *)
(* absent or not a list, the entries keep their sentinels and the current  *)
(* fields are populated all the same; decoding succeeds in every case.     *)
C17_SubsectionsIndependent ==
  WeatherPresent =>
     /\ result = "ok" /\ errorMsg = ""
     /\ payload.weather.current.type # "object" =>
          weatherData = [temperature |-> 0, condition |-> "N/A",
                         windSpeed |-> 0, icon |-> ""]
     /\ payload.weather.current.type = "object" =>
          /\ HoldsInt(weatherData.temperature,
                      payload.weather.current.temperature)
          /\ HoldsStr(weatherData.condition,
                      payload.weather.current.condition, "N/A")
          /\ HoldsTenths(weatherData.windSpeed,
                         payload.weather.current.wind_speed)
          /\ HoldsStr(weatherData.icon, payload.weather.current.icon, "")
     /\ payload.weather.forecast.type # "array" =>
          \A i \in 0..2 :
             forecast[i] = [date |-> "", high |-> 0, low |-> 0,
                            condition |-> ""]
     /\ payload.weather.forecast.type = "array" =>
          \A i \in 0..2 : DayHolds(i)
     /\ Rendered => (Len(frames) = 1 /\ frames[1].layout = "success")

(* No "current" sub-section and a forecast list of three complete entries: *)
(* the frame shows the sentinel temperature and condition and the three    *)
(* forecast dates                                                          *)
C17_Witness ==
  /\ WeatherPresent /\ Rendered
  /\ payload.weather.current.type = "absent"
  /\ payload.weather.forecast = GoodForecast
  /\ weatherData = InitWeatherData
  /\ forecast[0].date = "2025-03-11" /\ forecast[0].condition = "Clear"
  /\ forecast[2].date = "2025-03-13" /\ forecast[2].low = 0
  /\ Shows(frames[1], "0 C") /\ Shows(frames[1], "N/A")
  /\ Shows(frames[1], "11.03") /\ Shows(frames[1], "13.03")

(* Whether a text mentions a word, whatever the case of its letters *)
Mentions(text, word) ==
  \E i \in 1..(Len(text) - Len(word) + 1) :
     \A k \in 1..Len(word) :
        LowerChar(SubSeq(text, i + k - 1, i + k - 1)) = SubSeq(word, k, k)

(* The categories in their order of checking, each with its keywords, and  *)
(* with its icon-code prefixes                                             *)
TextChecks ==
  <<[category |-> "sun", words |-> {"clear", "sun"}],
    [category |-> "cloud", words |-> {"cloud"}],
    [category |-> "rain", words |-> {"rain", "drizzle"}],
    [category |-> "snow", words |-> {"snow"}],
    [category |-> "thunder", words |-> {"thunder", "storm"}],
    [category |-> "mist", words |-> {"mist", "fog", "haze"}]>>

CodeChecks ==
  <<[category |-> "sun", words |-> {"01"}],
    [category |-> "few clouds", words |-> {"02"}],
    [category |-> "cloud", words |-> {"03", "04"}],
    [category |-> "rain", words |-> {"09", "10"}],
    [category |-> "thunder", words |-> {"11"}],
    [category |-> "snow", words |-> {"13"}],
    [category |-> "mist", words |-> {"50"}]>>

TextHit(text, k) == \E w \in TextChecks[k].words : Mentions(text, w)

CodeHit(code, k) ==
  \E w \in CodeChecks[k].words : Len(code) >= 2 /\ SubSeq(code, 1, 2) = w

(* The category of the first check that matches, "unknown" when none does *)
FirstTextMatch(text) ==
  IF \E k \in 1..Len(TextChecks) : TextHit(text, k)
  THEN TextChecks[CHOOSE k \in 1..Len(TextChecks) :
                    /\ TextHit(text, k)
                    /\ \A j \in 1..(k - 1) : ~TextHit(text, j)].category
  ELSE "unknown"

FirstCodeMatch(code) ==
  IF \E k \in 1..Len(CodeChecks) : CodeHit(code, k)
  THEN CodeChecks[CHOOSE k \in 1..Len(CodeChecks) :
                    /\ CodeHit(code, k)
                    /\ \A j \in 1..(k - 1) : ~CodeHit(code, j)].category
  ELSE "unknown"

(* C18: the success layout draws exactly one pictogram for the icon code   *)
(* and one for each forecast entry's condition text.  The large one is the *)
(* category of the first matching prefix among 01, 02, 03/04, 09/10, 11,   *)
(* 13, 50; each small one is the category of the first check, in the order *)
(* clear/sun, cloud, rain/drizzle, snow, thunder/storm, mist/fog/haze,     *)
(* whose keyword occurs in the text in any letter case; "unknown" is drawn *)
(* when no check matches.                                                  *)
C18_PictogramFirstMatch ==
  \A f \in 1..Len(frames) :
     frames[f].layout = "success" =>
        /\ Len(frames[f].icons) = 4
        /\ frames[f].icons[1] = FirstCodeMatch(weatherData.icon)
        /\ \A i \in 0..2 :
             frames[f].icons[i + 2] = FirstTextMatch(forecast[i].condition)
        /\ (frames[f].icons[1] = "unknown") <=> Shows(frames[f], "?")

(* A text with keywords of two categories: "thunderstorm with light rain"  *)
(* in the second entry is drawn as rain, the earlier check                 *)
C18_Witness ==
  /\ Len(frames) >= 1 /\ frames[1].layout = "success"
  /\ forecast[1].condition = "thunderstorm with light rain"
  /\ weatherData.icon = "04d"
  /\ frames[1].icons = <<"cloud", "sun", "rain", "rain">>

(* The payload was handed to deserializeJson and is not JSON *)
SyntaxFailed == Ran("decode") /\ ~payload.valid

(* C19 as the specification states it: a payload that is not valid JSON    *)
(* fails decoding with a reason that is not the missing-section reason and *)
(* that carries the position at which the text stops being JSON.           *)
C19_SyntaxErrorPosition ==
  SyntaxFailed =>
     /\ result = "fail"
     /\ errorMsg # "No prayer_times"
     /\ indexOf(errorMsg, IntToString(payload.errorAt)) >= 0

(* C19, amended: a payload that is not valid JSON fails decoding with the  *)
(* fixed reason "JSON error", the same at whatever position the text stops *)
(* being JSON and distinct from the missing-section reason                 *)
(* "No prayer_times"; the syntax check comes first, so this is the reason  *)
(* although such a payload has no prayer_times section either; no field is *)
(* decoded and the error layout shows the reason.                          *)
C19_SyntaxErrorFirst ==
  SyntaxFailed =>
     /\ payload.prayer_times.type = "absent"
     /\ result = "fail"
     /\ errorMsg = "JSON error"
     /\ errorMsg # "No prayer_times"
     /\ prayerTimes = InitPrayerTimes
     /\ Rendered => frames = <<[layout |-> "error",
                                texts |-> <<"Error", "JSON error">>,
                                icons |-> <<>>]>>

(* A text that stops being JSON at byte 17: the error layout says          *)
(* "JSON error" and nothing of the position                                *)
C19_Witness ==
  /\ SyntaxFailed
  /\ payload.errorAt = 17
  /\ errorMsg = "JSON error"
  /\ Len(frames) = 1 /\ frames[1].texts = <<"Error", "JSON error">>

(* The snapshot holds the sentinels it was constructed with *)
SnapshotUntouched ==
  /\ prayerTimes = [fajr |-> "N/A", shuruq |-> "N/A", dhuhr |-> "N/A",
                    asr |-> "N/A", maghrib |-> "N/A", isha |-> "N/A",
                    location |-> ""]
  /\ weatherData = [temperature |-> 0, condition |-> "N/A", windSpeed |-> 0,
                    icon |-> ""]
  /\ DOMAIN forecast = 0..2
  /\ \A i \in 0..2 :
        forecast[i] = [date |-> "", high |-> 0, low |-> 0, condition |-> ""]

(* C20: on every failure path (WiFi failure, HTTP failure, JSON syntax     *)
(* error, missing prayer_times) prayerTimes, weatherData and the three     *)
(* forecast entries hold their initial sentinels, up to and after the      *)
(* rendering of the error layout; no field is written before the           *)
(* mandatory-section check has passed.                                     *)
C20_FailureLeavesSnapshot ==
  /\ result = "fail" =>
       /\ errorMsg \in {"WiFi failed", "JSON error", "No prayer_times"}
            \/ (errorMsg = "HTTP " \o IntToString(httpCode) /\ httpCode # 200)
       /\ SnapshotUntouched
  /\ (Rendered /\ frames[1].layout = "error") => SnapshotUntouched
  /\ ~Decodable => SnapshotUntouched

(* The payload carried a location and a complete weather section but no    *)
(* prayer_times: nothing of it was stored when the error layout was drawn  *)
C20_Witness ==
  /\ Rendered /\ frames[1].layout = "error"
  /\ errorMsg = "No prayer_times"
  /\ payload.prayer_times.type = "null"
  /\ payload.location = JStr("Berlin")
  /\ payload.weather = GoodWeather
  /\ SnapshotUntouched

(* The stage that set the reason: the last stage entered before rendering *)
FailedStage ==
  IF Ran("decode") THEN "decode" ELSE IF Ran("fetch") THEN "fetch" ELSE "connect"

(* C21: the reason and the layout agree.  Whenever the error layout is     *)
(* rendered errorMsg is non-empty and is the reason of the one stage that  *)
(* failed: "WiFi failed" from connecting, "HTTP <code>" with the GET's     *)
(* code from fetching, "JSON error" or "No prayer_times" from decoding;    *)
(* whenever the success layout is rendered errorMsg is the empty string.   *)
C21_ReasonMatchesLayout ==
  \A k \in 1..Len(frames) :
     /\ frames[k].layout = "error" =>
          /\ errorMsg # ""
          /\ frames[k].texts = <<"Error", errorMsg>>
          /\ FailedStage = "connect" => errorMsg = "WiFi failed"
          /\ FailedStage = "fetch" =>
               (httpCode \notin {0, 200} /\ errorMsg = ReasonOf(httpCode))
          /\ FailedStage = "decode" =>
               /\ httpCode = 200
               /\ ~payload.valid => errorMsg = "JSON error"
               /\ payload.valid => errorMsg = "No prayer_times"
     /\ frames[k].layout = "success" =>
          (errorMsg = "" /\ FailedStage = "decode" /\ httpCode = 200)

(* The server answered 500: fetching failed, decoding was skipped and the  *)
(* error layout shows "HTTP 500"                                           *)
C21_Witness ==
  /\ stages = <<"connect", "fetch", "render">>
  /\ httpCode = 500
  /\ errorMsg = "HTTP 500"
  /\ Len(frames) = 1 /\ frames[1].layout = "error"
  /\ frames[1].texts = <<"Error", "HTTP 500">>

(* How many forecast entries the payload provides: none without a list *)
ProvidedDays ==
  IF HasForecastList THEN Len(payload.weather.forecast.items) ELSE 0

(* The label and the temperatures of card i: the success layout prints the *)
(* cards last, two strings each                                            *)
CardLabel(frame, i) == frame.texts[Len(frame.texts) - 5 + 2 * i]
CardTemps(frame, i) == frame.texts[Len(frame.texts) - 4 + 2 * i]

(* The strings the success layout prints before the cards: the title, the  *)
(* location when there is one, six names and times, "?" for an unknown     *)
(* icon, the temperature and the condition                                 *)
TextsBeforeCards ==
  1 + (IF prayerTimes.location = "" THEN 0 ELSE 1) + 12
    + (IF FirstCodeMatch(weatherData.icon) = "unknown" THEN 1 ELSE 0) + 2

(* C22: the success layout draws exactly 3 forecast cards, whatever the    *)
(* number of forecast entries in the payload: each card has a label, a     *)
(* pictogram and temperatures, and a card whose entry the payload did not  *)
(* provide (the list is shorter than 3, or there is no list) shows the     *)
(* defaults: an empty label, the "unknown" pictogram, "0 / 0".             *)
C22_ThreeCards ==
  (Decodable /\ Rendered) =>
     /\ Len(frames) = 1 /\ frames[1].layout = "success"
     /\ Len(frames[1].texts) = TextsBeforeCards + 2 * 3
     /\ Len(frames[1].icons) = 1 + 3
     /\ \A i \in 0..2 :
          /\ i >= ProvidedDays =>
               /\ CardLabel(frames[1], i) = ""
               /\ frames[1].icons[i + 2] = "unknown"
               /\ CardTemps(frames[1], i) = "0 / 0"
          /\ (i < ProvidedDays /\ DayValue(i, "date").type = "string") =>
               CardLabel(frames[1], i) = "1" \o Digit(i + 1) \o ".03"

(* A forecast list of one entry: its card, then two cards of defaults *)
C22_Witness ==
  /\ Decodable /\ Rendered
  /\ HasForecastList /\ ProvidedDays = 1
  /\ payload.weather.current = GoodCurrent
  /\ CardLabel(frames[1], 0) = "11.03" /\ CardTemps(frames[1], 0) = "11 / -2"
  /\ CardLabel(frames[1], 1) = "" /\ CardTemps(frames[1], 1) = "0 / 0"
  /\ CardLabel(frames[1], 2) = "" /\ CardTemps(frames[1], 2) = "0 / 0"
  /\ frames[1].icons = <<"cloud", "sun", "unknown", "unknown">>

(* The wake timer's microseconds divided by 1,000,000, by long division    *)
(* from the most significant byte: the quotient q and the remainder r of   *)
(* the bytes from position i up                                            *)
RECURSIVE TimerDivision(_)
TimerDivision(i) ==
  IF i > Len(timerUs) THEN [q |-> 0, r |-> 0]
  ELSE LET upper == TimerDivision(i + 1)
           part == upper.r * 256 + timerUs[i]
       IN [q |-> upper.q * 256 + (part \div 1000000), r |-> part % 1000000]

TimerArmed == \E i \in 1..Len(timerUs) : timerUs[i] # 0

(* The timer holds a whole number of seconds that fits an int *)
TimerWholeSeconds ==
  /\ \A i \in 7..Len(timerUs) : timerUs[i] = 0
  /\ TimerDivision(1).r = 0

TimerSeconds == TimerDivision(1).q

(* C23: the order of goToSleep.  The clock is synchronised and the sleep   *)
(* duration computed after the one rendering and while the WiFi is still   *)
(* in station mode and the display awake; the WiFi is disconnected and off *)
(* and the display hibernated before the timer is armed; the timer is      *)
(* armed, with exactly the computed seconds, before deep sleep starts; and *)
(* after deep sleep has started the only step is the wake-up that restarts *)
(* setup() from freshly constructed globals.                               *)
C23_ShutdownOrder ==
  /\ [](pc \in {"syncTime", "calc", "shutdown"} =>
          /\ Len(frames) = 1
          /\ wifiMode = "STA" /\ displayState = "ready"
          /\ ~TimerArmed
          /\ pc = "shutdown" => SleepComputed)
  /\ [](pc = "arm" =>
          /\ wifiMode = "OFF" /\ ~linkUp /\ displayState = "hibernate"
          /\ SleepComputed
          /\ ~TimerArmed)
  /\ [](TimerArmed <=> pc \in {"deep_sleep_start", "asleep"})
  /\ [](TimerArmed =>
          /\ wifiMode = "OFF" /\ ~linkUp /\ displayState = "hibernate"
          /\ SleepComputed
          /\ TimerWholeSeconds
          /\ TimerSeconds = WordValue(sleepSeconds))
  /\ [][pc = "asleep" =>
          /\ pc' = "boot" /\ stages' = <<>> /\ frames' = <<>>
          /\ ~TimerArmed' /\ wifiMode' = "NULL" /\ displayState' = "off"]_vars

(* A cycle that rendered data at noon sleeps with the WiFi off, the        *)
(* display hibernated and the timer armed for 43800 seconds                *)
C23_Witness ==
  /\ pc = "asleep"
  /\ result = "ok"
  /\ timeinfo = Reading(12, 0, 0)
  /\ wifiMode = "OFF" /\ displayState = "hibernate"
  /\ TimerWholeSeconds /\ TimerSeconds = 43800

(* The timer's value needs more than the 4 bytes of an unsigned long *)
TimerExceedsUnsignedLong == \E i \in (ULONG_BYTES + 1)..Len(timerUs) : timerUs[i] # 0

(* C24: for every sleepSeconds the scheduler computes, a value in          *)
(* (0, 86400], the microseconds handed to the wake timer are an 8-byte     *)
(* value equal to sleepSeconds * 1,000,000: dividing them by 1,000,000     *)
(* gives sleepSeconds back with no remainder.  The value needs more than   *)
(* 32 bits exactly when sleepSeconds is above 4294.                        *)
C24_TimerMicroseconds ==
  pc \in {"deep_sleep_start", "asleep"} =>
     /\ FitsInt(sleepSeconds)
     /\ WordValue(sleepSeconds) > 0 /\ WordValue(sleepSeconds) <= DAY_SECONDS
     /\ Len(timerUs) = ULLONG_BYTES
     /\ TimerWholeSeconds
     /\ TimerSeconds = WordValue(sleepSeconds)
     /\ TimerExceedsUnsignedLong <=> WordValue(sleepSeconds) > 4294

(* At 22:58:25 the device sleeps 4295 seconds, the first duration whose    *)
(* microseconds pass 2^32: 4,295,000,000 = 2^32 + 32704                    *)
C24_Witness ==
  /\ pc = "deep_sleep_start"
  /\ timeinfo = Reading(22, 58, 25)
  /\ WordValue(sleepSeconds) = 4295
  /\ timerUs = <<192, 127, 0, 0, 1, 0, 0, 0>>

====
